---- MODULE Spec2Model ----
(***************************************************************************)
(* Model of streamlit_app.py (Wedding Rainfall Analysis).                  *)
(*                                                                         *)
(* Part I   the data frames and the four cached pure functions             *)
(*          get_df, get_df_lo_dt_eff, get_df_mon_day_eff,                  *)
(*          get_df_mon_day_year_eff, as operators.                         *)
(* Part II  the session: display_analysis behind the "Generate Analysis"   *)
(*          button and the "Clear Cache and Reload Data" button.           *)
(*                                                                         *)
(* Encoding.  Rainfall amounts are naturals (tenths of a millimetre), so   *)
(* sums are exact.  A mean is the reduced fraction <<numerator,            *)
(* denominator>>.  A date is <<year, month, day>>, a timestamp is          *)
(* <<year, month, day, hour>>.  A pivoted frame is                         *)
(* [index, columns, cells]; a NaN cell is a pair <<row, column>> outside   *)
(* DOMAIN cells.  A call of a function that may end the script run         *)
(* returns [status, value] with status "returned", "stopped" (st.stop())   *)
(* or "raised" (a Python exception).                                       *)
(*                                                                         *)
(* The four functions are memoized by st.cache_data.  The files do not     *)
(* change during a session and the functions are pure, so a memoized       *)
(* return equals a recomputed one (st.cache_data replays the recorded      *)
(* st.warning calls, and caches nothing when the function stops or         *)
(* raises); the model computes every call.                                 *)
(*                                                                         *)
(* The charting library is outside the program: building the figure        *)
(* (make_subplots ... update_layout) and showing it (st.plotly_chart)      *)
(* each either succeed or raise, and a run may meet either.  Both lie      *)
(* inside the try block of display_analysis, the first before and the      *)
(* second after the store of df_mon_day_eff.                               *)
(***************************************************************************)
EXTENDS Integers, Sequences, FiniteSets, TLC

VARIABLES
    files,                \* year -> the per-year CSV file on disk
    session,              \* st.session_state: present keys -> values
    args,                 \* the arguments of the last call / request
    df,                   \* the RecordSet the last run worked on
    df_lo_dt_eff,         \* the DailyTotalsTable of the last run
    ret_mon_day,          \* what get_df_mon_day_eff did in the last run
    ret_mon_day_year,     \* what get_df_mon_day_year_eff did in the last run
    outcome,              \* how the last request ended
    warnings,             \* years st.warning was issued for in the last run
    calls,                \* the functions the last run called, in order
    pc                    \* position of the function-level driver (Part I)

vars == <<files, session, args, df, df_lo_dt_eff, ret_mon_day,
          ret_mon_day_year, outcome, warnings, calls, pc>>

-----------------------------------------------------------------------------
(* Bounds and domains *)

MaxRecs == 2
NumYears == 3
YearMax == 2024
YearMin == YearMax - NumYears + 1

Years == YearMin..YearMax
YearRanges == {yr \in Years \X Years : yr[1] <= yr[2]}

\* The years the records of a function-level input are dated in.
DataYears == {YearMax - 1, YearMax}
DataYearRanges == {yr \in DataYears \X DataYears : yr[1] <= yr[2]}

MonthDays == {<<5, 26>>, <<5, 27>>}
DataLocations == {"A", "B"}
\* A reading is an hour of the day with the amount measured in it.
Readings == {<<12, 0>>, <<12, 2>>, <<20, 5>>}
Windows == {<<11, 19>>, <<12, 20>>, <<13, 20>>}

\* The columns get_df_mon_day_eff and get_df_mon_day_year_eff add.
HelperColumns == {"date", "years", "months", "days", "hours"}
CallLocations == DataLocations \cup HelperColumns

Row(loc, y, md, rd) ==
    [location |-> loc, rain |-> rd[2],
     datetime |-> <<y, md[1], md[2], rd[1]>>, date |-> <<y, md[1], md[2]>>]

Rows == {Row(loc, y, md, rd) :
            loc \in DataLocations, y \in DataYears,
            md \in MonthDays, rd \in Readings}

RecordSets == UNION {[1..n -> Rows] : n \in 0..MaxRecs}

-----------------------------------------------------------------------------
(* Arithmetic helpers *)

RECURSIVE GCD(_, _)
GCD(a, b) == IF b = 0 THEN a ELSE GCD(b, a % b)

\* The arithmetic mean total / n (n > 0) as a reduced fraction.
Mean(total, n) == LET g == GCD(total, n) IN <<total \div g, n \div g>>

\* Days since 1970-01-01 of a date: the value a datetime64 column holds.
DateOrdinal(d) ==
    LET y   == IF d[2] <= 2 THEN d[1] - 1 ELSE d[1]
        era == y \div 400
        yoe == y - era * 400
        mp  == (d[2] + 9) % 12
        doy == (153 * mp + 2) \div 5 + d[3] - 1
        doe == yoe * 365 + yoe \div 4 - yoe \div 100 + doy
    IN  era * 146097 + doe - 719468

-----------------------------------------------------------------------------
(* Part I: the pure functions *)

EmptyFrame == [index |-> {}, columns |-> {}, cells |-> <<>>]
EmptySeries == <<>>

\* DataFrame.pivot of a frame with one value per <<row, column>> key: one row
\* per row label, one column per column label, a cell where a key exists,
\* NaN elsewhere.
pivot(values) ==
    [index   |-> {k[1] : k \in DOMAIN values},
     columns |-> {k[2] : k \in DOMAIN values},
     cells   |-> values]

\* Mutant: the NaN cells left as they are.
fillna0_Skipped(t) == t

\* DataFrame.fillna(0): every NaN cell becomes 0.
fillna0(t) ==
    [index   |-> t.index,
     columns |-> t.columns,
     cells   |-> [k \in t.index \X t.columns |->
                     IF k \in DOMAIN t.cells THEN t.cells[k] ELSE 0]]

\* groupby(...)['rain'].sum() of one group: the rows of s, in order.
RECURSIVE SumRain(_, _, _)
SumRain(s, loc, date) ==
    IF s = <<>> THEN 0
    ELSE (IF Head(s).location = loc /\ Head(s).date = date
             THEN Head(s).rain ELSE 0)
         + SumRain(Tail(s), loc, date)

\* Mutant: the end of the window taken as exclusive.
InWindow_ExclusiveEnd(r, start_hour, end_hour) ==
    r.datetime[4] >= start_hour /\ r.datetime[4] < end_hour

InWindow(r, start_hour, end_hour) ==
    r.datetime[4] >= start_hour /\ r.datetime[4] <= end_hour

get_df_lo_dt_eff(d, start_hour, end_hour) ==
    LET df_eff == SelectSeq(d, LAMBDA r : InWindow(r, start_hour, end_hour))
        groups == {<<df_eff[i].date, df_eff[i].location>> :
                      i \in 1..Len(df_eff)}
        total_rain == [k \in groups |-> SumRain(df_eff, k[2], k[1])]
    IN  fillna0(pivot(total_rain))

\* The columns of df_ after reset_index() and the four helper assignments.
HelperFrameColumns(t) ==
    {"date"} \cup t.columns \cup {"years", "months", "days", "hours"}

\* The value of column col in the row of df_ dated d.
ColumnValue(t, d, col) ==
    CASE col = "date"   -> DateOrdinal(d)
      [] col = "years"  -> d[1]
      [] col = "months" -> d[2]
      [] col = "days"   -> d[3]
      [] col = "hours"  -> 0
      [] OTHER          -> t.cells[<<d, col>>]

RECURSIVE SumColumn(_, _, _)
SumColumn(t, rows, col) ==
    IF rows = {} THEN 0
    ELSE LET d == CHOOSE x \in rows : TRUE
         IN  ColumnValue(t, d, col) + SumColumn(t, rows \ {d}, col)

\* groupby(...)[col].mean() of one group of rows.
MeanColumn(t, rows, col) == Mean(SumColumn(t, rows, col), Cardinality(rows))

\* df_[selected].groupby(keys): a key that labels more than one selected
\* column is not 1-dimensional, and pandas raises ValueError.
GroupbyAmbiguous(selected, keys) ==
    \E i \in DOMAIN keys :
        Cardinality({j \in DOMAIN selected : selected[j] = keys[i]}) > 1

\* Mutant: no year mask, as in get_df_mon_day_year_eff.
YearMask_Unfiltered(t, year_start, year_end) == t.index

\* The rows kept by the year mask of get_df_mon_day_eff.
YearMask(t, year_start, year_end) ==
    {d \in t.index : d[1] >= year_start /\ d[1] <= year_end}

\* Mutant: the mask compares the month only.
MonthDayMask_MonthOnly(t, months, days) == {d \in t.index : d[2] = months}

\* The rows kept by the calendar-date mask of get_df_mon_day_year_eff.
MonthDayMask(t, months, days) ==
    {d \in t.index : d[2] = months /\ d[3] = days}

get_df_mon_day_eff(t, location, year_start, year_end) ==
    LET masked   == YearMask(t, year_start, year_end)
        groups   == {<<d[2], d[3]>> : d \in masked}
        avg_rain == [k \in groups |->
                        MeanColumn(t, {d \in masked : <<d[2], d[3]>> = k},
                                   location)]
    IN  IF location \notin HelperFrameColumns(t)
        THEN [status |-> "stopped", value |-> EmptyFrame]
        ELSE IF GroupbyAmbiguous(<<location, "months", "days">>,
                                 <<"months", "days">>)
        THEN [status |-> "raised", value |-> EmptyFrame]
        ELSE [status |-> "returned", value |-> pivot(avg_rain)]

get_df_mon_day_year_eff(t, location, year_start, year_end, months, days) ==
    LET masked   == MonthDayMask(t, months, days)
        groups   == {d[1] : d \in masked}
        avg_rain == [y \in groups |->
                        MeanColumn(t, {d \in masked : d[1] = y}, location)]
    IN  IF location \notin HelperFrameColumns(t)
        THEN [status |-> "stopped", value |-> EmptySeries]
        ELSE IF GroupbyAmbiguous(<<location, "years">>, <<"years">>)
        THEN [status |-> "raised", value |-> EmptySeries]
        ELSE [status |-> "returned", value |-> avg_rain]

-----------------------------------------------------------------------------
(* The per-year files and the loader *)

\* A row of a CSV file; get_df derives location, rain, datetime and date.
RawRow(loc, y, md, rd) ==
    [station_name |-> loc, rainfall_mm |-> rd[2],
     timestamp |-> <<y, md[1], md[2], rd[1]>>]

\* The content of rain_<y>.csv when it exists: station A reports every year,
\* on both calendar dates, at noon and in the evening; station B reports only
\* in the last year, at noon.
FileRows(y) ==
    <<RawRow("A", y, <<5, 26>>, <<12, 2>>),
      RawRow("A", y, <<5, 26>>, <<20, 5>>),
      RawRow("A", y, <<5, 27>>, <<12, 0>>),
      RawRow("A", y, <<5, 27>>, <<20, 5>>)>>
    \o (IF y = YearMax THEN <<RawRow("B", y, <<5, 26>>, <<12, 5>>)>>
        ELSE <<>>)

MissingFile == [exists |-> FALSE, rows |-> <<>>]
FileSystems ==
    {[y \in Years |-> IF y \in present
                      THEN [exists |-> TRUE, rows |-> FileRows(y)]
                      ELSE MissingFile] : present \in SUBSET Years}

\* list(range(year_start, year_end + 1))
YearList(year_start, year_end) ==
    [i \in 1..(year_end - year_start + 1) |-> year_start + i - 1]

RECURSIVE ConcatFiles(_, _)
ConcatFiles(fs, years) ==
    IF years = <<>> THEN <<>>
    ELSE (IF fs[Head(years)].exists THEN fs[Head(years)].rows ELSE <<>>)
         \o ConcatFiles(fs, Tail(years))

AddEnglishColumns(raw) ==
    [i \in 1..Len(raw) |->
        [location |-> raw[i].station_name,
         rain     |-> raw[i].rainfall_mm,
         datetime |-> raw[i].timestamp,
         date     |-> SubSeq(raw[i].timestamp, 1, 3)]]

\* Mutant: no st.stop() when nothing was read; an empty frame is returned.
get_df_NoStop(fs, years) ==
    [status   |-> "returned",
     value    |-> AddEnglishColumns(ConcatFiles(fs, years)),
     warnings |-> SelectSeq(years, LAMBDA y : ~fs[y].exists)]

get_df(fs, years) ==
    LET read   == SelectSeq(years, LAMBDA y : fs[y].exists)
        warned == SelectSeq(years, LAMBDA y : ~fs[y].exists)
    IN  IF read = <<>>
        THEN [status |-> "stopped", value |-> <<>>, warnings |-> warned]
        ELSE [status |-> "returned",
              value |-> AddEnglishColumns(ConcatFiles(fs, years)),
              warnings |-> warned]

-----------------------------------------------------------------------------
(* Part II: the session *)

\* The value None of st.session_state['df_mon_day_eff'].
NoneValue == [none |-> TRUE]

\* The hour slider's and the date inputs' initial values.
DefaultWindow == <<11, 13>>
DefaultMonthDay == <<5, 26>>
\* The hour windows requested in a session.
SessionWindows == {DefaultWindow, <<20, 23>>}
\* The calendar date requested in a session: the date inputs are left at
\* their initial values (the date varies in the function-level driver).
SessionMonthDays == {DefaultMonthDay}
\* The stations offered by the location dropdown.
locations == {"A", "B"}

NoReturn == [status |-> "none", value |-> EmptyFrame]
NoSeries == [status |-> "none", value |-> EmptySeries]

Range(s) == {s[i] : i \in DOMAIN s}
DeleteKeys(ss, keys) == [k \in (DOMAIN ss) \ keys |-> ss[k]]

\* "Initialize session state": runs at the top of every script run.
ScriptInit(ss) ==
    IF "df_mon_day_eff" \in DOMAIN ss THEN ss
    ELSE ("df_mon_day_eff" :> NoneValue) @@ ss

\* Mutant: the cached data_years are not compared with the request.
NeedLoad_PresenceOnly(ss, year_start, year_end) ==
    "full_data" \notin DOMAIN ss

\* The condition under which display_analysis loads new data.
NeedLoad(ss, year_start, year_end) ==
    \/ "full_data" \notin DOMAIN ss
    \/ "data_years" \notin DOMAIN ss
    \/ Range(ss.data_years) # year_start..year_end

\* Mutant: data_years records the years found in the loaded data.
StoreLoaded_YearsOfData(ss, d, collected_years) ==
    ("full_data" :> d)
        @@ ("data_years" :>
               SelectSeq(collected_years,
                         LAMBDA y : \E i \in 1..Len(d) : d[i].date[1] = y))
        @@ DeleteKeys(ss, {"full_data", "data_years"})

\* Mutant: loading new data also resets the stored matrix.
StoreLoaded_ResetsMatrix(ss, d, collected_years) ==
    ("full_data" :> d) @@ ("data_years" :> collected_years)
        @@ ("df_mon_day_eff" :> NoneValue)
        @@ DeleteKeys(ss, {"full_data", "data_years", "df_mon_day_eff"})

\* st.session_state['full_data'] = df; ['data_years'] = collected_years
StoreLoaded(ss, d, collected_years) ==
    ("full_data" :> d) @@ ("data_years" :> collected_years)
        @@ DeleteKeys(ss, {"full_data", "data_years"})

\* st.session_state['df_mon_day_eff'] = df_mon_day_eff
StoreMatrix(ss, m) == [ss EXCEPT !["df_mon_day_eff"] = m]

\* The load step of display_analysis: the loader's return and the session.
LoadStep(ss, fs, a) ==
    LET collected_years == YearList(a.year_start, a.year_end)
    IN  IF NeedLoad(ss, a.year_start, a.year_end)
        THEN LET got == get_df(fs, collected_years)
             IN  [invoked  |-> TRUE,
                  status   |-> got.status,
                  df       |-> got.value,
                  warnings |-> got.warnings,
                  session  |-> IF got.status = "returned"
                               THEN StoreLoaded(ss, got.value, collected_years)
                               ELSE ss]
        ELSE [invoked  |-> FALSE,
              status   |-> "returned",
              df       |-> ss.full_data,
              warnings |-> <<>>,
              session  |-> ss]

\* What the charting library does in one run: the figure is built and
\* shown, building it raises, or showing it raises.
ChartResults == {"shown", "figure_raises", "plotly_chart_raises"}

AggregatorCalls ==
    <<"get_df_lo_dt_eff", "get_df_mon_day_eff", "get_df_mon_day_year_eff">>

\* display_analysis up to the second aggregator call: the load step and the
\* three aggregators, ending early where one of them stops or raises.
RunAggregators(ss, fs, a) ==
    LET load == LoadStep(ss, fs, a)
        t    == get_df_lo_dt_eff(load.df, a.start_hour, a.end_hour)
        r1   == get_df_mon_day_eff(t, a.location, a.year_start, a.year_end)
        r2   == get_df_mon_day_year_eff(t, a.location, a.year_start,
                                        a.year_end, a.months, a.days)
        loaded == IF load.invoked THEN <<"get_df">> ELSE <<>>
    IN  IF load.status # "returned"
        THEN [session |-> load.session, outcome |-> "no_data",
              df |-> <<>>, df_lo_dt_eff |-> EmptyFrame,
              ret_mon_day |-> NoReturn, ret_mon_day_year |-> NoSeries,
              warnings |-> load.warnings, calls |-> loaded]
        ELSE IF r1.status # "returned"
        THEN [session |-> load.session,
              outcome |-> IF r1.status = "stopped" THEN "unknown_location"
                          ELSE "exception",
              df |-> load.df, df_lo_dt_eff |-> t,
              ret_mon_day |-> r1, ret_mon_day_year |-> NoSeries,
              warnings |-> load.warnings,
              calls |-> loaded \o SubSeq(AggregatorCalls, 1, 2)]
        ELSE [session |-> load.session,
              outcome |-> CASE r2.status = "stopped" -> "unknown_location"
                            [] r2.status = "raised"  -> "exception"
                            [] OTHER                 -> "aggregated",
              df |-> load.df, df_lo_dt_eff |-> t,
              ret_mon_day |-> r1, ret_mon_day_year |-> r2,
              warnings |-> load.warnings,
              calls |-> loaded \o AggregatorCalls]

\* display_analysis from the charting on, for a run p that got both tables:
\* build the figure, store df_mon_day_eff, show the figure.
ChartAndStore(p, chart) ==
    IF p.outcome # "aggregated" THEN p
    ELSE IF chart = "figure_raises"
    THEN [p EXCEPT !.outcome = "exception",
                   !.calls = p.calls \o <<"make_subplots">>]
    ELSE [p EXCEPT !.session = StoreMatrix(p.session, p.ret_mon_day.value),
                   !.outcome = IF chart = "plotly_chart_raises"
                               THEN "exception" ELSE "ok",
                   !.calls = p.calls
                                 \o <<"make_subplots", "st.plotly_chart">>]

\* One run of display_analysis from session ss with the files fs, the
\* charting library behaving as chart says.
display_analysis(ss, fs, a, chart) ==
    ChartAndStore(RunAggregators(ss, fs, a), chart)

DefaultArgs ==
    [location |-> "A", year_start |-> YearMin, year_end |-> YearMax,
     start_hour |-> DefaultWindow[1], end_hour |-> DefaultWindow[2],
     months |-> DefaultMonthDay[1], days |-> DefaultMonthDay[2]]

Init ==
    /\ files \in FileSystems
    /\ session = ScriptInit(<<>>)
    /\ args = DefaultArgs
    /\ df = <<>>
    /\ df_lo_dt_eff = EmptyFrame
    /\ ret_mon_day = NoReturn
    /\ ret_mon_day_year = NoSeries
    /\ outcome = "none"
    /\ warnings = <<>>
    /\ calls = <<>>
    /\ pc = "session"

\* The "Generate Analysis" button: one script run that calls
\* display_analysis, i.e. ChartAndStore(RunAggregators(...), chart) for the
\* way the charting library behaves in that run.
Generate(loc, yr, w, md) ==
    /\ pc = "session"
    /\ LET a == [location |-> loc, year_start |-> yr[1], year_end |-> yr[2],
                   start_hour |-> w[1], end_hour |-> w[2],
                   months |-> md[1], days |-> md[2]]
       IN  \E p \in {RunAggregators(ScriptInit(session), files, a)} :
           \E chart \in ChartResults :
           \E run \in {ChartAndStore(p, chart)} :
           /\ args' = a
           /\ session' = run.session
           /\ df' = run.df
           /\ df_lo_dt_eff' = run.df_lo_dt_eff
           /\ ret_mon_day' = run.ret_mon_day
           /\ ret_mon_day_year' = run.ret_mon_day_year
           /\ outcome' = run.outcome
           /\ warnings' = run.warnings
           /\ calls' = run.calls
    /\ UNCHANGED <<files, pc>>

\* The "Clear Cache and Reload Data" button, offered while full_data is
\* cached: deletes the three keys and reruns the script, which initializes
\* the session state again and shows the instructions.
ClearCache ==
    /\ pc = "session"
    /\ "full_data" \in DOMAIN session
    /\ session' = ScriptInit(DeleteKeys(ScriptInit(session),
                      {"full_data", "data_years", "df_mon_day_eff"}))
    /\ df' = <<>>
    /\ df_lo_dt_eff' = EmptyFrame
    /\ ret_mon_day' = NoReturn
    /\ ret_mon_day_year' = NoSeries
    /\ outcome' = "none"
    /\ warnings' = <<>>
    /\ calls' = <<>>
    /\ UNCHANGED <<files, args, pc>>

Next ==
    \/ \E loc \in locations, yr \in YearRanges,
          w \in SessionWindows, md \in SessionMonthDays :
              Generate(loc, yr, w, md)
    \/ ClearCache

Spec == Init /\ [][Next]_vars

-----------------------------------------------------------------------------
(* The function-level driver: each pure function applied to drawn inputs *)

InitAgg ==
    /\ files = [y \in Years |-> MissingFile]
    /\ session = ScriptInit(<<>>)
    /\ args = DefaultArgs
    /\ df \in RecordSets
    /\ df_lo_dt_eff = EmptyFrame
    /\ ret_mon_day = NoReturn
    /\ ret_mon_day_year = NoSeries
    /\ outcome = "none"
    /\ warnings = <<>>
    /\ calls = <<>>
    /\ pc = "input"

Call_get_df_lo_dt_eff(w) ==
    /\ pc = "input"
    /\ args' = [args EXCEPT !.start_hour = w[1], !.end_hour = w[2]]
    /\ df_lo_dt_eff' = get_df_lo_dt_eff(df, w[1], w[2])
    /\ calls' = Append(calls, "get_df_lo_dt_eff")
    /\ pc' = "table"
    /\ UNCHANGED <<files, session, df, ret_mon_day, ret_mon_day_year,
                   outcome, warnings>>

Call_get_df_mon_day_eff(loc, yr) ==
    /\ pc = "table"
    /\ args' = [args EXCEPT !.location = loc,
                            !.year_start = yr[1], !.year_end = yr[2]]
    /\ ret_mon_day' = get_df_mon_day_eff(df_lo_dt_eff, loc, yr[1], yr[2])
    /\ calls' = Append(calls, "get_df_mon_day_eff")
    /\ pc' = "done"
    /\ UNCHANGED <<files, session, df, df_lo_dt_eff, ret_mon_day_year,
                   outcome, warnings>>

Call_get_df_mon_day_year_eff(loc, yr, md) ==
    /\ pc = "table"
    /\ args' = [args EXCEPT !.location = loc,
                            !.year_start = yr[1], !.year_end = yr[2],
                            !.months = md[1], !.days = md[2]]
    /\ ret_mon_day_year' = get_df_mon_day_year_eff(df_lo_dt_eff, loc,
                               yr[1], yr[2], md[1], md[2])
    /\ calls' = Append(calls, "get_df_mon_day_year_eff")
    /\ pc' = "done"
    /\ UNCHANGED <<files, session, df, df_lo_dt_eff, ret_mon_day,
                   outcome, warnings>>

NextAgg ==
    \/ \E w \in Windows : Call_get_df_lo_dt_eff(w)
    \/ \E loc \in CallLocations, yr \in DataYearRanges :
           Call_get_df_mon_day_eff(loc, yr)
    \/ \E loc \in CallLocations, yr \in DataYearRanges, md \in MonthDays :
           Call_get_df_mon_day_year_eff(loc, yr, md)

SpecAgg == InitAgg /\ [][NextAgg]_vars

-----------------------------------------------------------------------------
(* Properties of the Window Aggregator, under SpecAgg *)

RECURSIVE SumRainAt(_, _)
SumRainAt(d, I) ==
    IF I = {} THEN 0
    ELSE LET i == CHOOSE x \in I : TRUE
         IN  d[i].rain + SumRainAt(d, I \ {i})

\* The records of loc on date whose hour lies in [start_hour, end_hour].
Qualifying(d, loc, date, start_hour, end_hour) ==
    {i \in 1..Len(d) : /\ d[i].location = loc
                       /\ d[i].date = date
                       /\ start_hour <= d[i].datetime[4]
                       /\ d[i].datetime[4] <= end_hour}

\* The records of any location whose hour lies in [start_hour, end_hour].
Kept(d, start_hour, end_hour) ==
    {i \in 1..Len(d) : /\ start_hour <= d[i].datetime[4]
                       /\ d[i].datetime[4] <= end_hour}

\* get_df_lo_dt_eff has just returned its table.
TableBuilt == pc = "table"

\* C1: every cell of the table returned by get_df_lo_dt_eff equals the sum
\* of rain over exactly the records of that location on that date whose hour
\* h satisfies start_hour <= h <= end_hour.
C1_SummationCorrect ==
    TableBuilt =>
        \A k \in DOMAIN df_lo_dt_eff.cells :
            df_lo_dt_eff.cells[k] =
                SumRainAt(df, Qualifying(df, k[2], k[1],
                                         args.start_hour, args.end_hour))

\* The scenario of the specification: 2 at 12:00 and 5 at 20:00 for one
\* location on one date, window [11, 19], cell value 2.
C1_Witness ==
    /\ TableBuilt
    /\ args.start_hour = 11 /\ args.end_hour = 19
    /\ \E k \in DOMAIN df_lo_dt_eff.cells :
          /\ df_lo_dt_eff.cells[k] = 2
          /\ \E i, j \in 1..Len(df) :
                /\ df[i].location = k[2] /\ df[i].date = k[1]
                /\ df[i].datetime[4] = 12 /\ df[i].rain = 2
                /\ df[j].location = k[2] /\ df[j].date = k[1]
                /\ df[j].datetime[4] = 20 /\ df[j].rain = 5

\* C2 as stated: one row per date of the input records and one column per
\* location of the input records, also for those whose records all fall
\* outside the window, every cell present and >= 0.
C2_Original ==
    TableBuilt =>
        /\ df_lo_dt_eff.index = {df[i].date : i \in 1..Len(df)}
        /\ df_lo_dt_eff.columns = {df[i].location : i \in 1..Len(df)}
        /\ DOMAIN df_lo_dt_eff.cells =
               df_lo_dt_eff.index \X df_lo_dt_eff.columns
        /\ \A k \in DOMAIN df_lo_dt_eff.cells : df_lo_dt_eff.cells[k] >= 0

\* C2 amended: one row per date on which some record lies inside the window,
\* one column per location with some record inside the window, every cell of
\* that grid present and >= 0, and 0 where the location has no record inside
\* the window on that date.
C2_DenseGridOfKeptRecords ==
    TableBuilt =>
        LET kept == Kept(df, args.start_hour, args.end_hour)
        IN  /\ df_lo_dt_eff.index = {df[i].date : i \in kept}
            /\ df_lo_dt_eff.columns = {df[i].location : i \in kept}
            /\ DOMAIN df_lo_dt_eff.cells =
                   df_lo_dt_eff.index \X df_lo_dt_eff.columns
            /\ \A k \in DOMAIN df_lo_dt_eff.cells :
                  /\ df_lo_dt_eff.cells[k] >= 0
                  /\ Qualifying(df, k[2], k[1], args.start_hour,
                                args.end_hour) = {}
                         => df_lo_dt_eff.cells[k] = 0

\* A non-empty table built from records of which one has both its date and its
\* location wholly outside the window: that date and that location are dropped.
C2_Witness ==
    /\ TableBuilt
    /\ df_lo_dt_eff.index # {}
    /\ \E i \in 1..Len(df) :
          /\ df[i].date \notin df_lo_dt_eff.index
          /\ df[i].location \notin df_lo_dt_eff.columns

-----------------------------------------------------------------------------
(* Properties of the Calendar and Date-Series Aggregators, under SpecAgg *)

RECURSIVE SumCells(_, _, _)
SumCells(t, rows, loc) ==
    IF rows = {} THEN 0
    ELSE LET d == CHOOSE x \in rows : TRUE
         IN  t.cells[<<d, loc>>] + SumCells(t, rows \ {d}, loc)

\* q is the fraction total / n in lowest terms.
IsMeanOf(q, total, n) ==
    /\ n > 0 /\ q[2] > 0
    /\ q[1] * n = total * q[2]
    /\ \A g \in 2..q[2] : ~(q[1] % g = 0 /\ q[2] % g = 0)

\* C3 as stated: for a location that is not a column of the DailyTotalsTable,
\* the helper column names included, both aggregators end in the
\* location-not-found error and return no table.
C3_UnknownLocationStops ==
    (pc = "done" /\ args.location \notin df_lo_dt_eff.columns) =>
        /\ ret_mon_day.status \in {"none", "stopped"}
        /\ ret_mon_day_year.status \in {"none", "stopped"}

\* C6 as stated: the series has an entry for a year iff the location itself
\* has a record (inside the window the table was built with) on that
\* calendar date in that year.
C6_Original ==
    (ret_mon_day_year.status = "returned"
        /\ args.location \in df_lo_dt_eff.columns) =>
        \A y \in DataYears :
            y \in DOMAIN ret_mon_day_year.value
                <=> Qualifying(df, args.location,
                               <<y, args.months, args.days>>,
                               args.start_hour, args.end_hour) # {}

\* C6 amended: the series has an entry for a year iff some location has a
\* record inside the window on that calendar date in that year; where the
\* requested location has none, the entry is present with value 0.
C6_EntryPerTableRow ==
    (ret_mon_day_year.status = "returned"
        /\ args.location \in df_lo_dt_eff.columns) =>
        /\ DOMAIN ret_mon_day_year.value =
               {df[i].date[1] :
                   i \in {j \in Kept(df, args.start_hour, args.end_hour) :
                             /\ df[j].date[2] = args.months
                             /\ df[j].date[3] = args.days}}
        /\ \A y \in DOMAIN ret_mon_day_year.value :
               Qualifying(df, args.location, <<y, args.months, args.days>>,
                          args.start_hour, args.end_hour) = {}
                   => ret_mon_day_year.value[y] = <<0, 1>>

\* A series in which a year is present with value 0 although the location
\* has no record at all on that date in that year.
C6_Witness ==
    /\ ret_mon_day_year.status = "returned"
    /\ args.location \in df_lo_dt_eff.columns
    /\ \E y \in DOMAIN ret_mon_day_year.value :
          /\ ret_mon_day_year.value[y] = <<0, 1>>
          /\ \A i \in 1..Len(df) :
                df[i].location = args.location
                    => df[i].date # <<y, args.months, args.days>>

\* C7 as stated: every year of the series returned by
\* get_df_mon_day_year_eff lies in [year_start, year_end].
C7_YearsInRange ==
    (ret_mon_day_year.status = "returned"
        /\ args.location \in df_lo_dt_eff.columns) =>
        \A y \in DOMAIN ret_mon_day_year.value :
            args.year_start <= y /\ y <= args.year_end

\* C8: each (month, day) value returned by get_df_mon_day_eff is the mean of
\* the location's daily totals over the rows whose year is in
\* [year_start, year_end], and the keys are the (month, day) of those rows.
C8_FilterThenAverage ==
    (ret_mon_day.status = "returned"
        /\ args.location \in df_lo_dt_eff.columns) =>
        LET inRange == {d \in df_lo_dt_eff.index :
                           args.year_start <= d[1] /\ d[1] <= args.year_end}
            m == ret_mon_day.value
        IN  /\ DOMAIN m.cells = {<<d[2], d[3]>> : d \in inRange}
            /\ m.index = {d[2] : d \in inRange}
            /\ m.columns = {d[3] : d \in inRange}
            /\ \A k \in DOMAIN m.cells :
                  LET rows == {d \in inRange : d[2] = k[1] /\ d[3] = k[2]}
                  IN  IsMeanOf(m.cells[k],
                               SumCells(df_lo_dt_eff, rows, args.location),
                               Cardinality(rows))

\* A calendar date with a row inside and a row outside the year range whose
\* daily totals differ.
C8_Witness ==
    /\ ret_mon_day.status = "returned"
    /\ args.location \in df_lo_dt_eff.columns
    /\ \E d, e \in df_lo_dt_eff.index :
          /\ d[2] = e[2] /\ d[3] = e[3]
          /\ args.year_start <= d[1] /\ d[1] <= args.year_end
          /\ ~(args.year_start <= e[1] /\ e[1] <= args.year_end)
          /\ df_lo_dt_eff.cells[<<d, args.location>>]
                 # df_lo_dt_eff.cells[<<e, args.location>>]

-----------------------------------------------------------------------------
(* Properties of the session, under Spec *)

\* The last request called the loader.
LoaderInvoked(cs) == Len(cs) > 0 /\ cs[1] = "get_df"

Requested(a) == a.year_start..a.year_end
Readable(a) == {y \in Requested(a) : files[y].exists}
ErrorOutcomes == {"no_data", "unknown_location", "exception"}

\* C4: a load in which the file of every requested year is missing ends in
\* the No-data-at-all error; no RecordSet is returned, no later stage runs,
\* and the request writes nothing to the session.
C4_AllMissingIsFatal ==
    [][ /\ (outcome' # "none" /\ LoaderInvoked(calls')
               /\ Readable(args') = {}) => outcome' = "no_data"
        /\ outcome' = "no_data" =>
              /\ session' = session
              /\ calls' = <<"get_df">>
              /\ df' = <<>>
              /\ df_lo_dt_eff' = EmptyFrame
              /\ ret_mon_day'.status = "none"
              /\ ret_mon_day_year'.status = "none" ]_vars

\* A failed load of a session that holds data cached by an earlier request.
C4_Witness ==
    /\ outcome = "no_data"
    /\ "full_data" \in DOMAIN session
    /\ Readable(args) = {}

\* What C5 and its amendment share: one warning per missing year, in request
\* order, and a RecordSet holding exactly the rows of the readable years,
\* cached as full_data.
PartialLoad ==
    /\ \A y \in Years :
          Cardinality({i \in DOMAIN warnings : warnings[i] = y})
              = IF y \in Requested(args) /\ ~files[y].exists THEN 1 ELSE 0
    /\ \A y \in Years :
          Cardinality({i \in DOMAIN df : df[i].date[1] = y})
              = IF y \in Readable(args) THEN Len(files[y].rows) ELSE 0
    /\ session.full_data = df

PassedLoad == LoaderInvoked(calls) /\ outcome \notin {"none", "no_data"}

\* C5 as stated: after a load with some years missing, data_years is the
\* set of years whose files were read.
C5_Original ==
    PassedLoad =>
        /\ PartialLoad
        /\ Range(session.data_years) = Readable(args)

\* C5 amended: the loader warns once per missing year, continues and returns
\* the RecordSet of exactly the readable years (and no list of years);
\* data_years is the requested range list(range(year_start, year_end + 1)),
\* the missing years included.
C5_DataYearsIsRequestedRange ==
    PassedLoad =>
        /\ PartialLoad
        /\ session.data_years = YearList(args.year_start, args.year_end)

\* A load that skipped a missing year and read another.
C5_Witness ==
    /\ PassedLoad
    /\ warnings # <<>>
    /\ Readable(args) # Requested(args)

\* C9 as stated: in a session that holds the data and the matrix of an
\* earlier successful request, a request that ends in an error leaves
\* full_data, data_years and df_mon_day_eff as they were.
C9_Original ==
    [][ ("full_data" \in DOMAIN session
            /\ session.df_mon_day_eff # NoneValue
            /\ outcome' \in ErrorOutcomes) => session' = session ]_vars

\* The last call of the run was st.plotly_chart: df_mon_day_eff was stored.
StoredMatrix(cs) == Len(cs) > 0 /\ cs[Len(cs)] = "st.plotly_chart"

\* C9 amended: a request that ends in No-data-at-all leaves the session as
\* it was.  A request that ends in Unknown-location or in an unexpected
\* exception leaves full_data and data_years as they were when it reused the
\* cached RecordSet, and holding the newly loaded RecordSet and the requested
\* range when it loaded.  df_mon_day_eff is as it was, except after an
\* exception raised by st.plotly_chart, which follows the store: then it is
\* the matrix the failed request computed.
C9_ErrorEffects ==
    [][ outcome' \in ErrorOutcomes =>
          /\ outcome' = "no_data" => session' = session
          /\ outcome' # "no_data" =>
                 /\ LoaderInvoked(calls') =>
                        /\ session'.full_data = df'
                        /\ session'.data_years =
                               YearList(args'.year_start, args'.year_end)
                 /\ ~LoaderInvoked(calls') =>
                        /\ session'.full_data = session.full_data
                        /\ session'.data_years = session.data_years
          /\ outcome' # "exception" => ~StoredMatrix(calls')
          /\ session'.df_mon_day_eff =
                 IF StoredMatrix(calls') THEN ret_mon_day'.value
                 ELSE session.df_mon_day_eff ]_vars

\* An exception raised by st.plotly_chart in a request that loaded new
\* data: all three cached values are those of the failed request.
C9_Witness ==
    /\ outcome = "exception"
    /\ LoaderInvoked(calls)
    /\ StoredMatrix(calls)
    /\ session.full_data = df
    /\ session.df_mon_day_eff = ret_mon_day.value

\* What C10 and its amendment share: a Generate request loads iff nothing is
\* cached or the cached data_years differ as a set from the requested range,
\* otherwise it reuses the cached RecordSet unchanged; after a request that
\* passes the load step data_years is the requested range.
GenerateStepCaches ==
    outcome' # "none" =>
        /\ LoaderInvoked(calls')
               <=> \/ "full_data" \notin DOMAIN session
                   \/ Range(session.data_years) # Requested(args')
        /\ ~LoaderInvoked(calls') =>
               /\ df' = session.full_data
               /\ session'.full_data = session.full_data
        /\ outcome' # "no_data" =>
               session'.data_years =
                   YearList(args'.year_start, args'.year_end)

\* C10 as stated: after Clear Cache full_data, data_years and df_mon_day_eff
\* are all absent.
C10_Original ==
    [][ /\ GenerateStepCaches
        /\ outcome' = "none" =>
               DOMAIN session'
                   \cap {"full_data", "data_years", "df_mon_day_eff"} = {}
      ]_vars

\* C10 amended: after Clear Cache full_data and data_years are absent and
\* df_mon_day_eff, deleted and initialized again by the rerun, is None.
C10_CacheReuseAndClear ==
    [][ /\ GenerateStepCaches
        /\ outcome' = "none" =>
               /\ DOMAIN session' \cap {"full_data", "data_years"} = {}
               /\ "df_mon_day_eff" \in DOMAIN session'
               /\ session'.df_mon_day_eff = NoneValue
      ]_vars

\* A request that reused the cached RecordSet.
C10_Witness ==
    /\ outcome = "ok"
    /\ ~LoaderInvoked(calls)
    /\ df = session.full_data

====
